---- MODULE Spec2Model ----
(***************************************************************************)
(* varnish_exporter (src/main.go): the metric generator genMetrics, the    *)
(* revision resolver parseVCLList and the collection cycle behind          *)
(* GET /metrics, as state machines.                                        *)
(*                                                                         *)
(* A string that the code splits or lower-cases is a sequence of atoms     *)
(* (an atom is a run of characters without a dot, or the dot itself);      *)
(* Str turns such a sequence into the string the code prints.  A text is   *)
(* a sequence of lines, one per "\n"-terminated WriteString.               *)
(***************************************************************************)
EXTENDS Integers, Sequences, FiniteSets, TLC

\* ---------------------------------------------------------------- bounds

\* Largest number of keys of a counters object handed to genMetrics.
MaxKeys == 2

\* Largest number of entries of the array handed to parseVCLList.
MaxList == 5

\* Number of concurrent GET /metrics requests.
NumReqs == 2

\* ------------------------------------------------------- strings and JSON

Dot == "."

RECURSIVE Str(_)
\* The string a sequence of atoms spells.
Str(s) == IF s = << >> THEN "" ELSE Head(s) \o Str(Tail(s))

\* strings.ToLower on one atom of the alphabet used below.
LowerAtom(c) ==
  CASE c = "VBE" -> "vbe"
    [] c = "MEMPOOL" -> "mempool"
    [] c = "SMA" -> "sma"
    [] c = "LCK" -> "lck"
    [] c = "SMF" -> "smf"
    [] c = "MAIN" -> "main"
    [] c = "MGT" -> "mgt"
    [] c = "XYZ" -> "xyz"
    [] c = "S0" -> "s0"
    [] OTHER -> c

\* strings.ToLower(s)
ToLower(s) == [i \in 1..Len(s) |-> LowerAtom(s[i])]

RECURSIVE SplitFrom(_, _, _)
\* strings.Split, scanning from the left: cur is the segment being read.
SplitFrom(s, cur, acc) ==
  IF s = << >> THEN Append(acc, cur)
  ELSE IF Head(s) = Dot THEN SplitFrom(Tail(s), << >>, Append(acc, cur))
  ELSE SplitFrom(Tail(s), Append(cur, Head(s)), acc)

\* strings.Split(key, "."): the segments, each a sequence of atoms.
Split(key) == SplitFrom(key, << >>, << >>)

\* A JSON value as fastjson sees it: t is its type; s the text of a string,
\* n the value of a number that fits an int, isInt whether a number does,
\* f the members of an object (member name -> value).
JNull == [t |-> "null", s |-> "", n |-> 0, isInt |-> FALSE, f |-> << >>]
JStr(x) == [t |-> "string", s |-> x, n |-> 0, isInt |-> FALSE, f |-> << >>]
JInt(x) == [t |-> "number", s |-> "", n |-> x, isInt |-> TRUE, f |-> << >>]
JFloat == [t |-> "number", s |-> "", n |-> 0, isInt |-> FALSE, f |-> << >>]
JObj(members) == [t |-> "object", s |-> "", n |-> 0, isInt |-> FALSE, f |-> members]

\* (*fastjson.Value).Get(key): the member, or nil on a non-object or a
\* missing member.
Get(v, key) ==
  IF v.t = "object" /\ key \in DOMAIN v.f THEN v.f[key] ELSE JNull

\* (*fastjson.Value).GetStringBytes(key): "" unless the member is a string.
GetStringBytes(v, key) ==
  LET m == Get(v, key) IN IF m.t = "string" THEN m.s ELSE ""

\* (*fastjson.Value).GetInt(key): 0 unless the member is a number that
\* parses as an int.
GetInt(v, key) ==
  LET m == Get(v, key) IN IF m.t = "number" /\ m.isInt THEN m.n ELSE 0

\* ------------------------------------------------------------ Metric

newMetric(cate, name, labels, value) ==
  [Category |-> cate, Name |-> name, Labels |-> labels, Value |-> value]

newLabel(name, value) == (name :> value)

emptyLabel == << >>

RECURSIVE formatPairs(_, _, _)
\* The loop of formatLabel over the names still to be written.  Go ranges
\* over a map in no fixed order; every map built by genMetrics has at most
\* one entry, for which there is one order.
formatPairs(labels, names, w) ==
  IF names = {} THEN w
  ELSE LET name == CHOOSE x \in names : TRUE
           sep == IF w = "" THEN "{" ELSE ","
       IN formatPairs(labels, names \ {name},
                      w \o sep \o name \o "=\"" \o labels[name] \o "\"")

formatLabel(labels) ==
  LET w == formatPairs(labels, DOMAIN labels, "")
  IN IF w # "" THEN w \o "}" ELSE w

\* ------------------------------------------------------------ genMetrics

\* The locals of genMetrics as the key pass starts.
visitStart(activeVCL) ==
  [metrics |-> << >>, activeVCL |-> activeVCL, panicked |-> FALSE]

\* The VBE branch's activeVCL after it has looked at vclVersion.
adoptAlways(activeVCL, vclVersion) == vclVersion
adopt(activeVCL, vclVersion) ==
  IF activeVCL = "" THEN vclVersion ELSE activeVCL

\* The callback of value.Visit on one key: st holds metrics, activeVCL and
\* whether an index ran out of range (a Go run-time panic).
VisitKey(st, key, val) ==
  LET splits == Split(key)
      seg(i) == Str(splits[i])
      prefix == seg(1)
      add(m) == [st EXCEPT !.metrics = Append(st.metrics, m)]
      panic == [st EXCEPT !.panicked = TRUE]
  IN IF Str(key) = "version" THEN st
     ELSE IF Len(splits) < 2 THEN st
     ELSE IF prefix = "VBE" THEN
       LET vclVersion == seg(2)
           active == adopt(st.activeVCL, vclVersion)
           st1 == [st EXCEPT !.activeVCL = active]
       IN IF vclVersion # active THEN st1
          ELSE IF Len(splits) < 4 THEN [st1 EXCEPT !.panicked = TRUE]
          ELSE [st1 EXCEPT !.metrics =
                  Append(st.metrics,
                         newMetric("backend", seg(4), newLabel("name", seg(3)), val))]
     ELSE IF prefix = "MEMPOOL" THEN
       IF Len(splits) < 3 THEN panic
       ELSE add(newMetric("mempool", seg(3), newLabel("name", seg(2)), val))
     ELSE IF prefix = "SMA" THEN
       IF Len(splits) < 3 THEN panic
       ELSE add(newMetric("sma", seg(3),
                          newLabel("type", Str(ToLower(splits[2]))), val))
     ELSE IF prefix = "LCK" THEN
       IF Len(splits) < 3 THEN panic
       ELSE add(newMetric("lock", seg(3), newLabel("target", seg(2)), val))
     ELSE IF prefix = "SMF" THEN
       IF Len(splits) < 3 THEN panic
       ELSE add(newMetric("smf", seg(3), newLabel("type", seg(2)), val))
     ELSE IF prefix = "MAIN" THEN add(newMetric("main", seg(2), emptyLabel, val))
     ELSE IF prefix = "MGT" THEN add(newMetric("mgt", seg(2), emptyLabel, val))
     ELSE st

RECURSIVE VisitFrom(_, _, _)
\* value.Visit: the callback on every key from position i on, in order; a
\* panic ends the pass.
VisitFrom(value, i, st) ==
  IF i > Len(value) \/ st.panicked THEN st
  ELSE VisitFrom(value, i + 1, VisitKey(st, value[i].key, value[i].val))

\* The three lines written for one Metric.
renderMetric(m) ==
  LET desc == GetStringBytes(m.Value, "description")
      flag == GetStringBytes(m.Value, "flag")
      v == GetInt(m.Value, "value")
      type == IF flag = "g" THEN "gauge" ELSE "counter"
      name == "varnish_" \o m.Category \o "_" \o m.Name
  IN << "# HELP " \o name \o " " \o desc,
        "# TYPE " \o name \o " " \o type,
        name \o formatLabel(m.Labels) \o " " \o ToString(v) >>

\* The three lines that close the text.
renderActiveVCL(activeVCL) ==
  << "# HELP varnish_active_vcl vcl version",
     "# TYPE varnish_active_vcl gauge",
     "varnish_active_vcl{version=\"" \o activeVCL \o "\"} 1" >>

RECURSIVE renderFrom(_, _)
renderFrom(metrics, i) ==
  IF i > Len(metrics) THEN << >>
  ELSE renderMetric(metrics[i]) \o renderFrom(metrics, i + 1)

\* The rendering loop and the trailing block.
renderBlockFirst(metrics, activeVCL) ==
  renderActiveVCL(activeVCL) \o renderFrom(metrics, 1)
render(metrics, activeVCL) ==
  renderFrom(metrics, 1) \o renderActiveVCL(activeVCL)

\* genMetrics(value, activeVCL): the locals at the end, and the text it
\* returns unless it panicked.
genMetrics(value, activeVCL) ==
  LET st == VisitFrom(value, 1, visitStart(activeVCL))
  IN [panicked |-> st.panicked,
      metrics |-> st.metrics,
      activeVCL |-> st.activeVCL,
      text |-> IF st.panicked THEN << >> ELSE render(st.metrics, st.activeVCL)]

\* ------------------------------------------------------------ parseVCLList

\* The number of leading entries the scan skips.
SkipEntries == 3

\* The entries of the array the scan ranges over: arr[3:].
ScanAll(arr) == arr
ScanFrom(arr) == SubSeq(arr, SkipEntries + 1, Len(arr))

RECURSIVE scanActive(_)
\* The loop of parseVCLList over the entries left to scan.
scanActive(rest) ==
  IF rest = << >> THEN [kind |-> "err", name |-> "", err |-> "No active ACL found"]
  ELSE IF GetStringBytes(Head(rest), "status") = "active"
       THEN [kind |-> "ok", name |-> GetStringBytes(Head(rest), "name"), err |-> ""]
       ELSE scanActive(Tail(rest))

\* parseVCLList(input).  An input text is either not JSON (valid = FALSE)
\* or the JSON value it spells; an array is a value of type "array" with
\* its entries in arr.
parseVCLList(input) ==
  IF ~input.valid THEN [kind |-> "err", name |-> "", err |-> "cannot parse JSON"]
  ELSE IF input.t # "array"
       THEN [kind |-> "err", name |-> "", err |-> "value doesn't contain array"]
  ELSE IF Len(input.arr) < SkipEntries
       THEN [kind |-> "panic", name |-> "", err |-> ""]
  ELSE scanActive(ScanFrom(input.arr))

\* ------------------------------------------------------------ inputs

\* The keys of counters objects: well-formed keys of every row of the
\* classification table, the reserved key, keys with fewer segments than
\* their row reads, an empty revision segment, an unrecognized prefix.
Keys ==
  { << "version" >>,
    << "VBE", Dot, "a", Dot, "be1", Dot, "conn" >>,
    << "VBE", Dot, "b", Dot, "be2", Dot, "conn" >>,
    << "VBE", Dot, Dot, "be1", Dot, "happy" >>,
    << "VBE", Dot, "a" >>,
    << "VBE", Dot, "b", Dot, "be2" >>,
    << "MEMPOOL", Dot, "busyobj", Dot, "live" >>,
    << "MEMPOOL", Dot, "busyobj" >>,
    << "SMA", Dot, "S0", Dot, "c_req" >>,
    << "LCK", Dot, "sma", Dot, "creat" >>,
    << "SMF", Dot, "S0", Dot, "c_req" >>,
    << "MAIN", Dot, "uptime" >>,
    << "MGT", Dot, "uptime" >>,
    << "MAIN" >>,
    << "XYZ", Dot, "uptime" >> }

\* The per-metric nodes: a gauge, a counter with a negative value, an
\* object without description whose value is no integer, and a node that
\* is no object.
GaugeNode ==
  JObj(("description" :> JStr("d")) @@ ("flag" :> JStr("g")) @@ ("value" :> JInt(42)))
CounterNode ==
  JObj(("description" :> JStr("e")) @@ ("flag" :> JStr("c")) @@ ("value" :> JInt(-1)))
MalformedNode == JObj(("flag" :> JStr("c")) @@ ("value" :> JFloat))
ScalarNode == JInt(7)

Nodes == { GaugeNode, MalformedNode, ScalarNode }

\* The keys whose node takes every shape: the callback stores the node
\* unread, and the rendering reads nothing of the key but what the callback
\* stored.
ShapedKeys ==
  { << "VBE", Dot, "a", Dot, "be1", Dot, "conn" >>,
    << "SMA", Dot, "S0", Dot, "c_req" >>,
    << "MAIN", Dot, "uptime" >> }

Entries == [key : Keys, val : { GaugeNode }] \cup [key : ShapedKeys, val : Nodes]

\* The counters objects: every sequence of at most MaxKeys entries, in the
\* order Visit walks them.
Docs == UNION { [1..n -> Entries] : n \in 0..MaxKeys }

\* The activeVCL arguments: none, and two revision names.
Revs == { "", "a", "b" }

VclRecord(status, name) ==
  JObj(("status" :> JStr(status)) @@ ("name" :> JStr(name)))

\* The entries of a vcl.list array: a metadata entry and three records.
VclEntries ==
  { JInt(2), VclRecord("active", "a"), VclRecord("available", "b"),
    VclRecord("active", "b") }

NotJSON == [valid |-> FALSE, t |-> "", arr |-> << >>]
JSONObject == [valid |-> TRUE, t |-> "object", arr |-> << >>]
JSONArray(arr) == [valid |-> TRUE, t |-> "array", arr |-> arr]

\* The input texts of parseVCLList.
VclInputs ==
  { NotJSON, JSONObject }
    \cup { JSONArray(a) : a \in UNION { [1..n -> VclEntries] : n \in 0..MaxList } }

\* ------------------------------------------------------------ state

VARIABLES
  gValue,      \* genMetrics alone: the counters object passed
  gActiveVCL,  \* genMetrics alone: the activeVCL passed
  gRet,        \* genMetrics alone: pc and what the call left
  vInput,      \* parseVCLList alone: the input text
  vRet,        \* parseVCLList alone: pc and what the call returned
  noAdmin,     \* the -no-admin flag
  pc,          \* per request: where its handler stands
  proc,        \* per request: the external process execute waits for
  calls,       \* per request: how often execute ran varnishadm / varnishstat
  ran,         \* per request: what execute returned for each command
  vcl,         \* per request: activeVCL of collectMetrics
  stats,       \* per request: the counters object collectStats returned
  idx,         \* per request: the next key Visit hands to the callback
  loc,         \* per invocation: metrics and activeVCL inside genMetrics
  resp         \* per request: the response written

vars == << gValue, gActiveVCL, gRet, vInput, vRet, noAdmin, pc, proc, calls,
           ran, vcl, stats, idx, loc, resp >>

genVars == << gValue, gActiveVCL, gRet >>
vclVars == << vInput, vRet >>
cycleVars == << noAdmin, pc, proc, calls, ran, vcl, stats, idx, loc, resp >>

Reqs == 1..NumReqs

NoRet == [pc |-> "ready", panicked |-> FALSE, metrics |-> << >>,
          activeVCL |-> "", text |-> << >>]
NoVclRet == [pc |-> "ready", kind |-> "", name |-> "", err |-> ""]
NoResp == [status |-> 0, ctype |-> "", body |-> << >>]

\* What execute returns: the text of the output buffer and the error of
\* cmd.Run ("" for nil); done tells whether the command has returned.
Returned(out, err) == [done |-> TRUE, err |-> err, out |-> out]
NotRun == [done |-> FALSE, err |-> "", out |-> NotJSON]

\* No request has arrived.
CycleIdle ==
  /\ pc = [r \in Reqs |-> "idle"]
  /\ proc = [r \in Reqs |-> "none"]
  /\ calls = [r \in Reqs |-> [adm |-> 0, stat |-> 0]]
  /\ ran = [r \in Reqs |-> [adm |-> NotRun, stat |-> NotRun]]
  /\ vcl = [r \in Reqs |-> ""]
  /\ stats = [r \in Reqs |-> << >>]
  /\ idx = [r \in Reqs |-> 1]
  /\ loc = [r \in Reqs |-> visitStart("")]
  /\ resp = [r \in Reqs |-> NoResp]

GenIdle == gValue = << >> /\ gActiveVCL = "" /\ gRet = NoRet
VclIdle == vInput = NotJSON /\ vRet = NoVclRet

\* ------------------------------------------------------------ genMetrics alone

GenInit ==
  /\ gValue \in Docs
  /\ gActiveVCL \in Revs
  /\ gRet = NoRet
  /\ VclIdle
  /\ noAdmin = FALSE
  /\ CycleIdle

\* One call genMetrics(gValue, gActiveVCL).
CallGenMetrics ==
  /\ gRet.pc = "ready"
  /\ LET g == genMetrics(gValue, gActiveVCL)
     IN gRet' = [pc |-> IF g.panicked THEN "panicked" ELSE "returned",
                 panicked |-> g.panicked, metrics |-> g.metrics,
                 activeVCL |-> g.activeVCL, text |-> g.text]
  /\ UNCHANGED << gValue, gActiveVCL, vclVars, cycleVars >>

GenNext == CallGenMetrics

GenSpec == GenInit /\ [][GenNext]_vars

\* ------------------------------------------------------------ parseVCLList alone

VclInit ==
  /\ vInput \in VclInputs
  /\ vRet = NoVclRet
  /\ GenIdle
  /\ noAdmin = FALSE
  /\ CycleIdle

\* One call parseVCLList(vInput).
CallParseVCLList ==
  /\ vRet.pc = "ready"
  /\ LET p == parseVCLList(vInput)
     IN vRet' = [pc |-> IF p.kind = "panic" THEN "panicked" ELSE "returned",
                 kind |-> p.kind, name |-> p.name, err |-> p.err]
  /\ UNCHANGED << vInput, genVars, cycleVars >>

VclNext == CallParseVCLList

VclSpec == VclInit /\ [][VclNext]_vars

\* ------------------------------------------------------------ the collection cycle

VclHeader == << JInt(2), JInt(2), JInt(2) >>

\* What varnishadm vcl.list -j may leave in the buffer.
AdmOutputs ==
  { NotJSON, JSONObject, JSONArray(<< >>),
    JSONArray(VclHeader \o << VclRecord("active", "a") >>),
    JSONArray(VclHeader \o << VclRecord("available", "a"), VclRecord("active", "b") >>),
    JSONArray(VclHeader \o << VclRecord("available", "b") >>) }

AdmResults ==
  { Returned(NotJSON, "exit status 1") } \cup { Returned(o, "") : o \in AdmOutputs }

\* A stats text: not JSON, or the JSON value it spells, whose members (in
\* the order of the text) are in obj when it is an object.
StatsText(valid, t, obj) == [valid |-> valid, t |-> t, arr |-> obj]

Entry(key, val) == [key |-> key, val |-> val]

\* The counters objects varnishstat may print.
CycleDocs ==
  { << Entry(<< "VBE", Dot, "a", Dot, "be1", Dot, "conn" >>, GaugeNode),
       Entry(<< "VBE", Dot, "b", Dot, "be2", Dot, "conn" >>, CounterNode) >>,
    << Entry(<< "version" >>, ScalarNode),
       Entry(<< "MAIN", Dot, "uptime" >>, CounterNode) >>,
    << Entry(<< "VBE", Dot, "b", Dot, "be2", Dot, "conn" >>, GaugeNode),
       Entry(<< "MEMPOOL", Dot, "busyobj" >>, GaugeNode) >> }

StatResults ==
  { Returned(NotJSON, "exit status 1"), Returned(NotJSON, ""),
    Returned(StatsText(TRUE, "array", << >>), "") }
    \cup { Returned(StatsText(TRUE, "object", d), "") : d \in CycleDocs }

\* collectStats once execute has returned res.
collectStats(res) ==
  IF res.err # "" THEN [kind |-> "err", obj |-> << >>, err |-> res.err]
  ELSE IF ~res.out.valid THEN [kind |-> "err", obj |-> << >>, err |-> "cannot parse JSON"]
  ELSE IF res.out.t # "object"
       THEN [kind |-> "err", obj |-> << >>, err |-> "value doesn't contain object"]
  ELSE [kind |-> "ok", obj |-> res.out.arr, err |-> ""]

\* listVCL once execute has returned res.
listVCLResult(res) ==
  IF res.err # "" THEN [kind |-> "err", name |-> "", err |-> res.err]
  ELSE parseVCLList(res.out)

\* listVCL runs varnishadm unless the flag is set.
RunsVarnishadmAlways(flag) == TRUE
RunsVarnishadm(flag) == ~flag

\* The activeVCL and metrics of a genMetrics invocation belong to the
\* invocation: request r's are kept under r.
SharedSlot(r) == 1
Slot(r) == r

ContentType == "text/plain; version=0.0.4; charset=utf-8"

\* The /metrics handler on an error of collectMetrics.
Respond500(err) == [status |-> 500, ctype |-> "", body |-> << err >>]

\* The /metrics handler on a text of collectMetrics.
Respond200(out) == [status |-> 200, ctype |-> ContentType, body |-> out]

Init ==
  /\ noAdmin \in BOOLEAN
  /\ CycleIdle
  /\ GenIdle
  /\ VclIdle

\* execute starts varnishstat for request r (collectStats).
StartVarnishstat(r) ==
  /\ proc' = [proc EXCEPT ![r] = "running"]
  /\ calls' = [calls EXCEPT ![r].stat = @ + 1]

\* GET /metrics arrives: the handler calls collectMetrics, which calls
\* listVCL; execute starts varnishadm, or with -no-admin listVCL returns ""
\* and collectStats starts varnishstat.
ServeMetrics(r) ==
  /\ pc[r] = "idle"
  /\ IF RunsVarnishadm(noAdmin)
     THEN /\ pc' = [pc EXCEPT ![r] = "varnishadm"]
          /\ proc' = [proc EXCEPT ![r] = "running"]
          /\ calls' = [calls EXCEPT ![r].adm = @ + 1]
          /\ UNCHANGED vcl
     ELSE /\ pc' = [pc EXCEPT ![r] = "varnishstat"]
          /\ vcl' = [vcl EXCEPT ![r] = ""]
          /\ StartVarnishstat(r)
  /\ UNCHANGED << genVars, vclVars, noAdmin, ran, stats, idx, loc, resp >>

\* The external command of request r stops answering: cmd.Run sets no
\* deadline and waits for it.
ExecuteHangs(r) ==
  /\ pc[r] \in { "varnishadm", "varnishstat" }
  /\ proc[r] = "running"
  /\ proc' = [proc EXCEPT ![r] = "hung"]
  /\ UNCHANGED << genVars, vclVars, noAdmin, pc, calls, ran, vcl, stats, idx, loc, resp >>

\* varnishadm exits: listVCL returns; on an error the handler answers 500,
\* on a panic of parseVCLList the handler is unwound without an answer,
\* else collectStats starts varnishstat.
VarnishadmExits(r) ==
  /\ pc[r] = "varnishadm"
  /\ proc[r] = "running"
  /\ \E res \in AdmResults :
       LET l == listVCLResult(res)
       IN /\ ran' = [ran EXCEPT ![r].adm = res]
          /\ CASE l.kind = "err" ->
                    /\ pc' = [pc EXCEPT ![r] = "done"]
                    /\ resp' = [resp EXCEPT ![r] = Respond500(l.err)]
                    /\ proc' = [proc EXCEPT ![r] = "none"]
                    /\ UNCHANGED << vcl, calls >>
               [] l.kind = "panic" ->
                    /\ pc' = [pc EXCEPT ![r] = "panicked"]
                    /\ proc' = [proc EXCEPT ![r] = "none"]
                    /\ UNCHANGED << vcl, calls, resp >>
               [] l.kind = "ok" ->
                    /\ pc' = [pc EXCEPT ![r] = "varnishstat"]
                    /\ vcl' = [vcl EXCEPT ![r] = l.name]
                    /\ StartVarnishstat(r)
                    /\ UNCHANGED resp
  /\ UNCHANGED << genVars, vclVars, noAdmin, stats, idx, loc >>

\* varnishstat exits: collectStats returns; on an error the handler answers
\* 500, else genMetrics is entered with the counters object and activeVCL.
VarnishstatExits(r) ==
  /\ pc[r] = "varnishstat"
  /\ proc[r] = "running"
  /\ proc' = [proc EXCEPT ![r] = "none"]
  /\ \E res \in StatResults :
       LET c == collectStats(res)
       IN /\ ran' = [ran EXCEPT ![r].stat = res]
          /\ IF c.kind = "err"
             THEN /\ pc' = [pc EXCEPT ![r] = "done"]
                  /\ resp' = [resp EXCEPT ![r] = Respond500(c.err)]
                  /\ UNCHANGED << stats, idx, loc >>
             ELSE /\ pc' = [pc EXCEPT ![r] = "visit"]
                  /\ stats' = [stats EXCEPT ![r] = c.obj]
                  /\ idx' = [idx EXCEPT ![r] = 1]
                  /\ loc' = [loc EXCEPT ![Slot(r)] = visitStart(vcl[r])]
                  /\ UNCHANGED resp
  /\ UNCHANGED << genVars, vclVars, noAdmin, calls, vcl >>

\* Visit hands the next key of request r to the callback; a panic unwinds
\* the handler without an answer.
VisitStep(r) ==
  /\ pc[r] = "visit"
  /\ idx[r] <= Len(stats[r])
  /\ LET st == VisitKey(loc[Slot(r)], stats[r][idx[r]].key, stats[r][idx[r]].val)
     IN /\ loc' = [loc EXCEPT ![Slot(r)] = st]
        /\ pc' = [pc EXCEPT ![r] = IF st.panicked THEN "panicked" ELSE "visit"]
  /\ idx' = [idx EXCEPT ![r] = @ + 1]
  /\ UNCHANGED << genVars, vclVars, noAdmin, proc, calls, ran, vcl, stats, resp >>

\* The key pass of request r is over: genMetrics renders and returns, and
\* the handler answers with the text.
WriteMetrics(r) ==
  /\ pc[r] = "visit"
  /\ idx[r] > Len(stats[r])
  /\ resp' = [resp EXCEPT ![r] =
                Respond200(render(loc[Slot(r)].metrics, loc[Slot(r)].activeVCL))]
  /\ pc' = [pc EXCEPT ![r] = "done"]
  /\ UNCHANGED << genVars, vclVars, noAdmin, proc, calls, ran, vcl, stats, idx, loc >>

Next ==
  \E r \in Reqs :
    \/ ServeMetrics(r)
    \/ ExecuteHangs(r)
    \/ VarnishadmExits(r)
    \/ VarnishstatExits(r)
    \/ VisitStep(r)
    \/ WriteMetrics(r)

Spec == Init /\ [][Next]_vars

\* The handler's goroutine keeps running, and a command that has not hung
\* exits; nothing makes a hung command return.
FairSpec ==
  /\ Spec
  /\ \A r \in Reqs :
       /\ WF_vars(VarnishadmExits(r))
       /\ WF_vars(VarnishstatExits(r))
       /\ WF_vars(VisitStep(r))
       /\ WF_vars(WriteMetrics(r))

\* collectMetrics as a function of what its two commands return: the
\* outcome of the cycle run alone.
collectMetrics(flag, adm, stat) ==
  LET l == IF RunsVarnishadm(flag) THEN listVCLResult(adm)
           ELSE [kind |-> "ok", name |-> "", err |-> ""]
      c == collectStats(stat)
      g == genMetrics(c.obj, l.name)
  IN IF l.kind # "ok" THEN [kind |-> l.kind, out |-> << >>, err |-> l.err]
     ELSE IF c.kind # "ok" THEN [kind |-> "err", out |-> << >>, err |-> c.err]
     ELSE IF g.panicked THEN [kind |-> "panic", out |-> << >>, err |-> ""]
     ELSE [kind |-> "ok", out |-> g.text, err |-> ""]

\* ------------------------------------------------------------ claims on genMetrics

Recognized == { "VBE", "MEMPOOL", "SMA", "LCK", "SMF", "MAIN", "MGT" }

NSeg(e) == Len(Split(e.key))
Prefix(e) == Str(Split(e.key)[1])
Rev(e) == Str(Split(e.key)[2])

\* The key is not the reserved one, has at least 2 segments and a
\* recognized first segment.
Classified(e) == Str(e.key) # "version" /\ NSeg(e) >= 2 /\ Prefix(e) \in Recognized

IsVBE(e) == Classified(e) /\ Prefix(e) = "VBE"

\* The segments the row of the classification table reads.
RowSegments(e) ==
  IF Prefix(e) = "VBE" THEN 4
  ELSE IF Prefix(e) \in { "MAIN", "MGT" } THEN 2 ELSE 3

CategoryOf(e) ==
  CASE Prefix(e) = "VBE" -> "backend"
    [] Prefix(e) = "MEMPOOL" -> "mempool"
    [] Prefix(e) = "SMA" -> "sma"
    [] Prefix(e) = "LCK" -> "lock"
    [] Prefix(e) = "SMF" -> "smf"
    [] Prefix(e) = "MAIN" -> "main"
    [] Prefix(e) = "MGT" -> "mgt"

Min(S) == CHOOSE x \in S : \A y \in S : x <= y

\* The active revision in force once key i has been visited: the one
\* given, else the first non-empty revision id among the VBE keys up to i,
\* else none.
ActiveAt(value, given, i) ==
  IF given # "" THEN given
  ELSE LET S == { j \in 1..i : IsVBE(value[j]) /\ Rev(value[j]) # "" }
       IN IF S = {} THEN "" ELSE Rev(value[Min(S)])

\* Key i passes the revision filter.
Retained(value, given, i) ==
  Classified(value[i]) /\ (IsVBE(value[i]) => Rev(value[i]) = ActiveAt(value, given, i))

\* Key i is retained but has fewer segments than its row reads.
Truncated(value, given, i) ==
  Retained(value, given, i) /\ NSeg(value[i]) < RowSegments(value[i])

RECURSIVE CategoriesFrom(_, _, _)
\* The categories of the retained keys from position i on, in order.
CategoriesFrom(value, given, i) ==
  IF i > Len(value) THEN << >>
  ELSE (IF Retained(value, given, i) THEN << CategoryOf(value[i]) >> ELSE << >>)
         \o CategoriesFrom(value, given, i + 1)

Backends(metrics) == SelectSeq(metrics, LAMBDA m : m.Category = "backend")

\* The revision C2 names: the one given, else that of the first VBE key.
FirstVBERev(value, given) ==
  IF given # "" THEN given
  ELSE LET S == { j \in 1..Len(value) : IsVBE(value[j]) }
       IN IF S = {} THEN "" ELSE Rev(value[Min(S)])

RECURSIVE BackendsOf(_, _, _)
\* The backend Metrics of the VBE keys from position i on whose revision
\* id is rev.
BackendsOf(value, rev, i) ==
  IF i > Len(value) THEN << >>
  ELSE (IF IsVBE(value[i]) /\ Rev(value[i]) = rev /\ NSeg(value[i]) >= 4
        THEN << [Category |-> "backend", Name |-> Str(Split(value[i].key)[4]),
                 Labels |-> ("name" :> Str(Split(value[i].key)[3])),
                 Value |-> value[i].val] >>
        ELSE << >>) \o BackendsOf(value, rev, i + 1)

\* C1: genMetrics never fails: once called, on any counters object and any
\* activeVCL, it has returned an exposition text.
C1_NeverAborts ==
  gRet.pc # "ready" => (gRet.pc = "returned" /\ gRet.text # << >>)

\* C2: the backend metrics of a pass are exactly those of the VBE keys that
\* carry one revision id, the given activeVCL, or the revision id of the
\* first VBE key visited when none is given; the other VBE keys are dropped.
C2_OneRevision ==
  gRet.pc = "returned" =>
    Backends(gRet.metrics) = BackendsOf(gValue, FirstVBERev(gValue, gActiveVCL), 1)

ActiveVCLBlock(a) ==
  << "# HELP varnish_active_vcl vcl version",
     "# TYPE varnish_active_vcl gauge",
     "varnish_active_vcl{version=\"" \o a \o "\"} 1" >>

\* The text ends with the block labelled a and holds none of the block's
\* lines before it.
EndsWithBlockOnce(text, a) ==
  /\ Len(text) >= 3
  /\ SubSeq(text, Len(text) - 2, Len(text)) = ActiveVCLBlock(a)
  /\ \A i \in 1..(Len(text) - 3) :
       /\ text[i] # "# HELP varnish_active_vcl vcl version"
       /\ text[i] # "# TYPE varnish_active_vcl gauge"
       /\ \A r \in Revs : text[i] # ActiveVCLBlock(r)[3]

\* C4 as stated: the returned text ends with the varnish_active_vcl block
\* labelled with the activeVCL that was passed, and holds it once.
C4_BlockOfGivenRevision ==
  gRet.pc = "returned" => EndsWithBlockOnce(gRet.text, gActiveVCL)

\* C4 amended: the returned text ends with the varnish_active_vcl block,
\* once and after three lines for each Metric, labelled with the active
\* revision in force at the end of the pass: the activeVCL passed, else the
\* revision id adopted from the VBE keys, else the empty string.
C4_BlockOnceAndLast ==
  gRet.pc = "returned" =>
    /\ EndsWithBlockOnce(gRet.text, ActiveAt(gValue, gActiveVCL, Len(gValue)))
    /\ Len(gRet.text) = 3 * Len(gRet.metrics) + 3

\* C4 witness: a text with metric lines before the block, from a pass
\* that was given no activeVCL and adopted one.
C4_Witness ==
  /\ gRet.pc = "returned"
  /\ gActiveVCL = ""
  /\ gRet.activeVCL = "a"
  /\ Len(gRet.text) >= 6

\* ------------------------------------------------------------ claims on parseVCLList

IsActive(v) == v.t = "object" /\ "status" \in DOMAIN v.f /\ v.f["status"] = JStr("active")

\* The positions past the 3 skipped entries whose record is active.
ActivePast(arr) == { i \in 4..Len(arr) : IsActive(arr[i]) }

Decodable(input) == input.valid /\ input.t = "array" /\ Len(input.arr) >= 3

\* C5: on a decodable list parseVCLList returns the name of the first
\* active record past the first 3 entries, and the error "no active
\* revision" when there is none.
C5_FirstActivePastHeader ==
  (vRet.pc # "ready" /\ Decodable(vInput)) =>
    /\ vRet.pc = "returned"
    /\ IF ActivePast(vInput.arr) = {}
       THEN vRet.kind = "err" /\ vRet.err = "No active ACL found"
       ELSE /\ vRet.kind = "ok"
            /\ vRet.name = vInput.arr[Min(ActivePast(vInput.arr))].f["name"].s

\* C5 witness: an active entry among the skipped ones, the name of the
\* first active record past them returned, another active record after it.
C5_Witness ==
  /\ vRet.pc = "returned" /\ vRet.kind = "ok" /\ vRet.name = "a"
  /\ Decodable(vInput)
  /\ \E i \in 1..3 : vInput.arr[i] = VclRecord("active", "b")
  /\ Cardinality(ActivePast(vInput.arr)) = 2

\* C6: on every input that is no decodable list parseVCLList returns an
\* error value.
C6_MalformedIsError ==
  (vRet.pc # "ready" /\ ~Decodable(vInput)) =>
    (vRet.pc = "returned" /\ vRet.kind = "err")

\* ------------------------------------------------------------ claims on the cycle

\* The handler of request r is over: it has answered, or a panic has
\* unwound it.
Ended(r) == pc[r] \in { "done", "panicked" }

\* The revision-list source failed, or returned undecodable data, or data
\* without an active entry.
AdmFailed(r) ==
  /\ ran[r].adm.done
  /\ \/ ran[r].adm.err # ""
     \/ ~Decodable(ran[r].adm.out)
     \/ ActivePast(ran[r].adm.out.arr) = {}

\* The stats source failed or returned undecodable data.
StatFailed(r) ==
  /\ ran[r].stat.done
  /\ \/ ran[r].stat.err # ""
     \/ ~ran[r].stat.out.valid
     \/ ran[r].stat.out.t # "object"

\* C7: a cycle is all-or-nothing: when a source has failed the response is
\* 500 with the error text and no metric lines; a 200 response comes only
\* from a cycle whose two steps succeeded and carries the generator's text
\* and the exposition Content-Type; no command is run twice in a cycle.
C7_AllOrNothing ==
  \A r \in Reqs :
    /\ calls[r].adm <= 1 /\ calls[r].stat <= 1
    /\ (Ended(r) /\ (AdmFailed(r) \/ StatFailed(r))) =>
         /\ resp[r].status = 500
         /\ Len(resp[r].body) = 1
         /\ resp[r].body[1] \in { "exit status 1", "cannot parse JSON",
                                  "value doesn't contain array",
                                  "value doesn't contain object",
                                  "No active ACL found" }
    /\ resp[r].status = 200 =>
         /\ ~AdmFailed(r) /\ ~StatFailed(r) /\ ran[r].stat.done
         /\ resp[r].ctype = "text/plain; version=0.0.4; charset=utf-8"
         /\ resp[r].body = genMetrics(ran[r].stat.out.arr, vcl[r]).text

\* The VBE keys of a counters object.
VBEKeys(value) == { i \in 1..Len(value) : IsVBE(value[i]) }

\* C8 as stated: with -no-admin varnishadm is never run, genMetrics is
\* passed the empty activeVCL, and no VBE key of an answered cycle is
\* dropped: each has its backend Metric.
C8_NoAdminNoFilter ==
  noAdmin =>
    \A r \in Reqs :
      /\ calls[r].adm = 0 /\ ~ran[r].adm.done
      /\ vcl[r] = ""
      /\ resp[r].status = 200 =>
           Len(Backends(loc[r].metrics)) = Cardinality(VBEKeys(stats[r]))

\* C8 amended: with -no-admin varnishadm is never run and genMetrics is
\* passed the empty activeVCL, so that no VBE key is dropped before a
\* revision id is adopted; once a VBE key with a non-empty revision id has
\* been visited, the VBE keys whose revision id differs from it are
\* dropped.
C8_NoAdminAdoptsFirst ==
  noAdmin =>
    \A r \in Reqs :
      /\ calls[r].adm = 0 /\ ~ran[r].adm.done
      /\ vcl[r] = ""
      /\ pc[r] \in { "visit", "done", "panicked" } =>
           loc[r].activeVCL = ActiveAt(stats[r], "", idx[r] - 1)
      /\ resp[r].status = 200 =>
           Len(Backends(loc[r].metrics))
             = Cardinality({ i \in VBEKeys(stats[r]) : Retained(stats[r], "", i) })

\* C8 witness: a cycle under -no-admin has answered 200 after dropping a
\* VBE key.
C8_Witness ==
  /\ noAdmin
  /\ \E r \in Reqs :
       /\ resp[r].status = 200
       /\ Len(Backends(loc[r].metrics)) = 1
       /\ Cardinality(VBEKeys(stats[r])) = 2

\* C9: every cycle that has started eventually ends, with an answer or an
\* abort, whatever the external commands do.
C9_CycleEnds == \A r \in Reqs : (pc[r] # "idle") ~> Ended(r)

\* The outcome of request r's cycle run alone on what its commands returned.
Alone(r) == collectMetrics(noAdmin, ran[r].adm, ran[r].stat)

\* C10: under every interleaving of the requests each cycle works on its
\* own metrics and its own activeVCL: during the key pass they are what the
\* pass run alone leaves after the keys visited so far, and the cycle ends
\* as it ends run alone on what its commands returned.
C10_NoInterference ==
  \A r \in Reqs :
    /\ pc[r] = "visit" =>
         loc[r] = VisitFrom(SubSeq(stats[r], 1, idx[r] - 1), 1, visitStart(vcl[r]))
    /\ pc[r] = "panicked" => Alone(r).kind = "panic" /\ resp[r] = NoResp
    /\ pc[r] = "done" =>
         \/ Alone(r).kind = "err" /\ resp[r] = [status |-> 500, ctype |-> "",
                                                body |-> << Alone(r).err >>]
         \/ Alone(r).kind = "ok" /\ resp[r] = [status |-> 200, ctype |-> ContentType,
                                               body |-> Alone(r).out]

\* C10 witness: two requests are in their key pass at once, with different
\* active revisions, one of them adopted during the pass.
C10_Witness ==
  \E r, q \in Reqs :
    /\ r # q
    /\ pc[r] = "visit" /\ pc[q] = "visit"
    /\ idx[r] > 1 /\ idx[q] > 1
    /\ vcl[r] = "" /\ loc[r].activeVCL = "a"
    /\ loc[q].activeVCL = "b"

====
